---- MODULE Spec2Model ----
(***************************************************************************)
(* Model of ProjectImportExportService (project_import_export.go):        *)
(* ScheduleExport, ExportStatus, ExportDownload, ImportFile, ImportStatus. *)
(* Every operation is a synchronous call; an action runs one whole call    *)
(* and leaves what the caller and the test doubles (transport, file, body  *)
(* buffer) observed in the variable last.                                  *)
(***************************************************************************)
EXTENDS Naturals, Sequences, FiniteSets, TLC

\* Longest archive the server serves.
MaxLen == 1
\* Most library calls that fail during one ImportFile call.
MaxFaults == 1

Byte == {0, 1}
Archives == UNION {[1..n -> Byte] : n \in 0..MaxLen}

\* A nil pointer is the empty set, a set pointer the singleton of its value.
NilPtr == {}
Deref(p) == CHOOSE x \in p : TRUE

\* Error values: which call produced the error, and on what.
Err(call, what) == [call |-> call, what |-> what]
NilErr == Err("", "")
ErrInvalid == Err("os", "ErrInvalid")

\* A request: what NewRequest was asked to build.
Req(method, path, project) == [method |-> method, path |-> path, project |-> project]
NoReq == Req("", "", "")

\* Events seen by the doubles, in call order.
Ev(call, req) == [call |-> call, req |-> req]

Count(s, c) == Cardinality({i \in 1..Len(s) : s[i].call = c})

----------------------------------------------------------------------------
\* The remote server's export job.
ExportStatuses ==
    {"none", "scheduled", "started", "finished", "failed", "regeneration_in_progress"}
ImportStatuses == {"none", "scheduled", "started", "finished", "failed"}

\* Project references handed to parseID: an int, strings, and another type.
Pids ==
    { [kind |-> "int", s |-> "42"], [kind |-> "string", s |-> "grp/proj"],
      [kind |-> "string", s |-> ""], [kind |-> "float", s |-> "1.5"] }

\* parseID: the reference as a string, or an error for a malformed or empty one.
parseID(pid) ==
    IF pid.kind \in {"int", "string"} /\ pid.s # ""
    THEN [project |-> pid.s, err |-> NilErr]
    ELSE [project |-> "", err |-> Err("parseID", pid.kind)]

\* What client.Do hands back: a response and no error, a response with the
\* decoded API error, or no response and the transport's error.
DoOk == [resp |-> "resp", err |-> NilErr]
DoApiError == [resp |-> "resp", err |-> Err("Do", "api")]
DoTransportError == [resp |-> "nil", err |-> Err("Do", "transport")]
DoOutcomes == {DoOk, DoApiError, DoTransportError}

\* The server serves the archive of a finished export and answers any other
\* download with a non-success response.
ServeDownload(status, transportFails) ==
    IF transportFails THEN DoTransportError
    ELSE IF status = "finished" THEN DoOk ELSE DoApiError

\* The server on an accepted schedule request: a new job is scheduled, a
\* finished one is regenerated.
ServerSchedule(status) ==
    CASE status = "none" -> "scheduled"
      [] status = "finished" -> "regeneration_in_progress"
      [] OTHER -> status

\* The server's own progress on the job.
ServerProgress(status) ==
    CASE status = "scheduled" -> {"started"}
      [] status = "started" -> {"finished", "failed"}
      [] status = "regeneration_in_progress" -> {"started"}
      [] OTHER -> {}

----------------------------------------------------------------------------
\* What a call hands back (resultNil, status or bytes, resp, err) and what the
\* doubles saw of it (calls). halt is "return" or "panic".
Outcome(resultNil, status, bytes, resp, err, calls) ==
    [ resultNil |-> resultNil, status |-> status, bytes |-> bytes,
      resp |-> resp, err |-> err, calls |-> calls, halt |-> "return" ]

ScheduleExport(pid, newRequestFails, do) ==
    LET p == parseID(pid)
        req == Req("POST", "projects/%s/export", p.project)
    IN  IF p.err # NilErr
        THEN Outcome(TRUE, "", <<>>, "nil", p.err, <<>>)
        ELSE IF newRequestFails
        THEN Outcome(TRUE, "", <<>>, "nil", Err("NewRequest", ""),
                     <<Ev("NewRequest", req)>>)
        ELSE Outcome(TRUE, "", <<>>, do.resp, do.err,
                     <<Ev("NewRequest", req), Ev("Do", req)>>)

\* ExportStatus without the early return on parseID's error.
ExportStatusUnchecked(pid, newRequestFails, do, served) ==
    LET req == Req("GET", "projects/%s/export", parseID(pid).project)
    IN  IF newRequestFails
        THEN Outcome(TRUE, "", <<>>, "nil", Err("NewRequest", ""),
                     <<Ev("NewRequest", req)>>)
        ELSE IF do.err # NilErr
        THEN Outcome(TRUE, "", <<>>, do.resp, do.err,
                     <<Ev("NewRequest", req), Ev("Do", req)>>)
        ELSE Outcome(FALSE, served, <<>>, do.resp, do.err,
                     <<Ev("NewRequest", req), Ev("Do", req)>>)

ExportStatus(pid, newRequestFails, do, served) ==
    LET p == parseID(pid)
        req == Req("GET", "projects/%s/export", p.project)
    IN  IF p.err # NilErr
        THEN Outcome(TRUE, "", <<>>, "nil", p.err, <<>>)
        ELSE IF newRequestFails
        THEN Outcome(TRUE, "", <<>>, "nil", Err("NewRequest", ""),
                     <<Ev("NewRequest", req)>>)
        ELSE IF do.err # NilErr
        THEN Outcome(TRUE, "", <<>>, do.resp, do.err,
                     <<Ev("NewRequest", req), Ev("Do", req)>>)
        ELSE Outcome(FALSE, served, <<>>, do.resp, do.err,
                     <<Ev("NewRequest", req), Ev("Do", req)>>)

\* ExportDownload replacing the transport's error by one of its own.
ExportDownloadOwnError(pid, newRequestFails, do, served) ==
    LET p == parseID(pid)
        req == Req("GET", "projects/%s/export/download", p.project)
    IN  IF p.err # NilErr
        THEN Outcome(TRUE, "", <<>>, "nil", p.err, <<>>)
        ELSE IF newRequestFails
        THEN Outcome(TRUE, "", <<>>, "nil", Err("NewRequest", ""),
                     <<Ev("NewRequest", req)>>)
        ELSE IF do.err # NilErr
        THEN Outcome(TRUE, "", <<>>, do.resp, Err("ExportDownload", "not finished"),
                     <<Ev("NewRequest", req), Ev("Do", req)>>)
        ELSE Outcome(FALSE, "", served, do.resp, do.err,
                     <<Ev("NewRequest", req), Ev("Do", req)>>)

ExportDownload(pid, newRequestFails, do, served) ==
    LET p == parseID(pid)
        req == Req("GET", "projects/%s/export/download", p.project)
    IN  IF p.err # NilErr
        THEN Outcome(TRUE, "", <<>>, "nil", p.err, <<>>)
        ELSE IF newRequestFails
        THEN Outcome(TRUE, "", <<>>, "nil", Err("NewRequest", ""),
                     <<Ev("NewRequest", req)>>)
        ELSE IF do.err # NilErr
        THEN Outcome(TRUE, "", <<>>, do.resp, do.err,
                     <<Ev("NewRequest", req), Ev("Do", req)>>)
        ELSE Outcome(FALSE, "", served, do.resp, do.err,
                     <<Ev("NewRequest", req), Ev("Do", req)>>)

ImportStatus(pid, newRequestFails, do, served) ==
    LET p == parseID(pid)
        req == Req("GET", "projects/%s/import", p.project)
    IN  IF p.err # NilErr
        THEN Outcome(TRUE, "", <<>>, "nil", p.err, <<>>)
        ELSE IF newRequestFails
        THEN Outcome(TRUE, "", <<>>, "nil", Err("NewRequest", ""),
                     <<Ev("NewRequest", req)>>)
        ELSE IF do.err # NilErr
        THEN Outcome(TRUE, "", <<>>, do.resp, do.err,
                     <<Ev("NewRequest", req), Ev("Do", req)>>)
        ELSE Outcome(FALSE, served, <<>>, do.resp, do.err,
                     <<Ev("NewRequest", req), Ev("Do", req)>>)

----------------------------------------------------------------------------
\* ImportFile. opt is the ImportFileOptions value: every field a pointer.
ExistingFiles == {"archive.tar.gz"}
LocalContents == {<<>>, <<0, 1>>}

ImportAcks == {"scheduled", "started"}

ImportOptions ==
    [ File : {NilPtr, {"missing.tar.gz"}, {"archive.tar.gz"}},
      Namespace : {NilPtr, {""}, {"ns"}},
      Path : {NilPtr, {""}, {"proj"}},
      Name : {NilPtr, {"n"}},
      Overwrite : {NilPtr, {TRUE}, {FALSE}},
      OverrideParams : {NilPtr, {"params"}} ]

\* The library calls of ImportFile that return an error, named as the error
\* they return.
OptionalFields == {"name", "overwrite", "override_params"}
FaultPoints ==
    {Err("CreateFormFile", "file"), Err("io.Copy", "file"), Err("Close", "writer"),
     Err("NewRequest", ""), Err("SetBody", "")}
    \cup {Err(c, f) : c \in {"CreateFormField", "Write"},
                     f \in {"namespace", "path"} \cup OptionalFields}
FaultSets == {F \in SUBSET FaultPoints : Cardinality(F) <= MaxFaults}

FormatBool(b) == IF b THEN "true" ELSE "false"
Stringify(v) == IF v = "params" THEN "{params}" ELSE "{}"

\* A part of the multipart body; written says its value was written in full.
Part(name, filename) ==
    [name |-> name, filename |-> filename, data |-> <<>>, text |-> "", written |-> FALSE]

\* The call in progress: what it has done so far and, once halt is no longer
\* "run", what it handed back.
Started ==
    [ resultNil |-> TRUE, status |-> "", bytes |-> <<>>, resp |-> "nil", err |-> NilErr,
      calls |-> <<>>, halt |-> "run",
      parts |-> <<>>, closed |-> FALSE, sent |-> FALSE,
      handle |-> "none", deferred |-> FALSE, closedOpen |-> 0, closedNil |-> 0,
      failed |-> {} ]

Return(st, resp, err) == [st EXCEPT !.halt = "return", !.resp = resp, !.err = err]
Panic(st) == [st EXCEPT !.halt = "panic"]
Called(st, call) == [st EXCEPT !.calls = Append(@, Ev(call, NoReq))]
Failed(st, fault) == [st EXCEPT !.failed = @ \cup {fault}]

\* os.Open(*opt.File); the error is printed; defer file.Close().
OpenFile(st, opt) ==
    IF opt.File = NilPtr THEN Panic(st)
    ELSE [Called(st, "os.Open") EXCEPT
            !.handle = IF Deref(opt.File) \in ExistingFiles THEN "open" ELSE "nil",
            !.deferred = TRUE]

\* CreateFormFile("file", "group.*.tar.gz"), then io.Copy(fileWriter, file).
FilePart(st, content, faults) ==
    IF st.halt # "run" THEN st
    ELSE IF Err("CreateFormFile", "file") \in faults
    THEN Return(Failed(Called(st, "CreateFormFile"), Err("CreateFormFile", "file")),
                "nil", Err("CreateFormFile", "file"))
    ELSE LET s1 == [Called(st, "CreateFormFile") EXCEPT
                      !.parts = Append(@, Part("file", "group.*.tar.gz"))]
             s2 == Called(s1, "io.Copy")
             n == Len(s2.parts)
         IN  IF st.handle = "nil" THEN Return(Failed(s2, ErrInvalid), "nil", ErrInvalid)
             ELSE IF Err("io.Copy", "file") \in faults
             THEN Return(Failed(s2, Err("io.Copy", "file")), "nil", Err("io.Copy", "file"))
             ELSE [s2 EXCEPT !.parts[n].data = content, !.parts[n].written = TRUE]

\* CreateFormField(field), then fw.Write([]byte(*ptr)): either error is returned.
RequiredField(st, field, ptr, faults) ==
    IF st.halt # "run" THEN st
    ELSE IF Err("CreateFormField", field) \in faults
    THEN Return(Failed(Called(st, "CreateFormField"), Err("CreateFormField", field)),
                "nil", Err("CreateFormField", field))
    ELSE LET s1 == [Called(st, "CreateFormField") EXCEPT
                      !.parts = Append(@, Part(field, ""))]
             n == Len(s1.parts)
         IN  IF ptr = NilPtr THEN Panic(s1)
             ELSE IF Err("Write", field) \in faults
             THEN Return(Failed(Called(s1, "Write"), Err("Write", field)),
                         "nil", Err("Write", field))
             ELSE [Called(s1, "Write") EXCEPT
                     !.parts[n].text = Deref(ptr), !.parts[n].written = TRUE]

\* if ptr != nil: CreateFormField(field), then fw.Write(text); either error is
\* printed and the call goes on. After a failed CreateFormField fw is nil.
OptionalField(st, field, ptr, text, faults) ==
    IF st.halt # "run" \/ ptr = NilPtr THEN st
    ELSE IF Err("CreateFormField", field) \in faults
    THEN Panic(Failed(Called(st, "CreateFormField"), Err("CreateFormField", field)))
    ELSE LET s1 == [Called(st, "CreateFormField") EXCEPT
                      !.parts = Append(@, Part(field, ""))]
             n == Len(s1.parts)
         IN  IF Err("Write", field) \in faults
             THEN Failed(Called(s1, "Write"), Err("Write", field))
             ELSE [Called(s1, "Write") EXCEPT
                     !.parts[n].text = text, !.parts[n].written = TRUE]

\* multiPartWriter.Close(): its error is dropped.
CloseWriter(st, faults) ==
    IF st.halt # "run" THEN st
    ELSE IF Err("Close", "writer") \in faults
    THEN Failed(Called(st, "Close"), Err("Close", "writer"))
    ELSE [Called(st, "Close") EXCEPT !.closed = TRUE]

\* Submit calling Do a second time after a failed Do.
SubmitRetrying(st, faults, do, ack) ==
    LET req == Req("POST", "groups/import", "")
        s1 == [st EXCEPT !.calls = Append(@, Ev("NewRequest", req))]
        s2 == Called(s1, "SetBody")
        s3 == [s2 EXCEPT !.calls = Append(@, Ev("Do", req)), !.sent = TRUE]
        s4 == [s3 EXCEPT !.calls = Append(@, Ev("Do", req))]
    IN  IF st.halt # "run" THEN st
        ELSE IF Err("NewRequest", "") \in faults
        THEN Return(s1, "nil", Err("NewRequest", ""))
        ELSE IF Err("SetBody", "") \in faults
        THEN Return(s2, "nil", Err("SetBody", ""))
        ELSE IF do.err # NilErr
        THEN Return(s4, do.resp, do.err)
        ELSE [Return(s3, do.resp, do.err) EXCEPT !.resultNil = FALSE, !.status = ack]

\* NewRequest, SetBody, the Content-Type header, Do.
Submit(st, faults, do, ack) ==
    LET req == Req("POST", "groups/import", "")
        s1 == [st EXCEPT !.calls = Append(@, Ev("NewRequest", req))]
        s2 == Called(s1, "SetBody")
        s3 == [s2 EXCEPT !.calls = Append(@, Ev("Do", req)), !.sent = TRUE]
    IN  IF st.halt # "run" THEN st
        ELSE IF Err("NewRequest", "") \in faults
        THEN Return(s1, "nil", Err("NewRequest", ""))
        ELSE IF Err("SetBody", "") \in faults
        THEN Return(s2, "nil", Err("SetBody", ""))
        ELSE IF do.err # NilErr
        THEN Return(s3, do.resp, do.err)
        ELSE [Return(s3, do.resp, do.err) EXCEPT !.resultNil = FALSE, !.status = ack]

\* The deferred file.Close() runs on return and on panic, once registered.
RunDeferred(st) ==
    IF ~st.deferred THEN st
    ELSE IF st.handle = "open"
    THEN [Called(st, "file.Close") EXCEPT !.handle = "closed", !.closedOpen = @ + 1]
    ELSE [Called(st, "file.Close") EXCEPT !.closedNil = @ + 1]

ImportFile(opt, content, faults, do, ack) ==
    LET s1 == OpenFile(Started, opt)
        s2 == FilePart(s1, content, faults)
        s3 == RequiredField(s2, "namespace", opt.Namespace, faults)
        s4 == RequiredField(s3, "path", opt.Path, faults)
        s5 == OptionalField(s4, "name", opt.Name,
                            IF opt.Name = NilPtr THEN "" ELSE Deref(opt.Name), faults)
        s6 == OptionalField(s5, "overwrite", opt.Overwrite,
                            IF opt.Overwrite = NilPtr THEN ""
                            ELSE FormatBool(Deref(opt.Overwrite)), faults)
        s7 == OptionalField(s6, "override_params", opt.OverrideParams,
                            IF opt.OverrideParams = NilPtr THEN ""
                            ELSE Stringify(Deref(opt.OverrideParams)), faults)
        s8 == CloseWriter(s7, faults)
        s9 == Submit(s8, faults, do, ack)
    IN  RunDeferred(s9)

----------------------------------------------------------------------------
VARIABLES exportStatus, last

vars == <<exportStatus, last>>

\* No call made, or its result dropped.
NoCall == [op |-> "none"]

Init ==
    /\ exportStatus = "none"
    /\ last = NoCall

DoScheduleExport ==
    /\ last = NoCall
    /\ \E pid \in Pids, nr \in BOOLEAN, do \in DoOutcomes :
         LET out == ScheduleExport(pid, nr, do)
         IN  /\ last' = [op |-> "ScheduleExport", out |-> out,
                         in |-> [pid |-> pid, nr |-> nr, do |-> do,
                                 server |-> exportStatus]]
             /\ exportStatus' = IF Count(out.calls, "Do") > 0 /\ do = DoOk
                                THEN ServerSchedule(exportStatus) ELSE exportStatus

DoExportStatus ==
    /\ last = NoCall
    /\ \E pid \in Pids, nr \in BOOLEAN, do \in DoOutcomes :
         /\ last' = [op |-> "ExportStatus",
                     out |-> ExportStatus(pid, nr, do, exportStatus),
                     in |-> [pid |-> pid, nr |-> nr, do |-> do,
                             server |-> exportStatus]]
         /\ UNCHANGED exportStatus

DoExportDownload ==
    /\ last = NoCall
    /\ \E pid \in Pids, nr \in BOOLEAN, tf \in BOOLEAN, archive \in Archives :
         LET do == ServeDownload(exportStatus, tf)
         IN  /\ last' = [op |-> "ExportDownload",
                         out |-> ExportDownload(pid, nr, do, archive),
                         in |-> [pid |-> pid, nr |-> nr, do |-> do,
                                 server |-> exportStatus, archive |-> archive]]
             /\ UNCHANGED exportStatus

DoImportStatus ==
    /\ last = NoCall
    /\ \E pid \in Pids, nr \in BOOLEAN, do \in DoOutcomes, st \in ImportStatuses :
         /\ last' = [op |-> "ImportStatus",
                     out |-> ImportStatus(pid, nr, do, st),
                     in |-> [pid |-> pid, nr |-> nr, do |-> do, served |-> st]]
         /\ UNCHANGED exportStatus

DoImportFile ==
    /\ last = NoCall
    /\ \E opt \in ImportOptions, content \in LocalContents, faults \in FaultSets,
          do \in DoOutcomes, ack \in ImportAcks :
         /\ last' = [op |-> "ImportFile",
                     out |-> ImportFile(opt, content, faults, do, ack),
                     in |-> [opt |-> opt, content |-> content, faults |-> faults,
                             do |-> do, ack |-> ack]]
         /\ UNCHANGED exportStatus

\* The caller drops the result and is free to call again.
Discard ==
    /\ last # NoCall
    /\ last' = NoCall
    /\ UNCHANGED exportStatus

\* The server works on the export job.
ServerWork ==
    /\ \E s \in ServerProgress(exportStatus) : exportStatus' = s
    /\ UNCHANGED last

Next ==
    \/ DoScheduleExport
    \/ DoExportStatus
    \/ DoExportDownload
    \/ DoImportStatus
    \/ DoImportFile
    \/ Discard
    \/ ServerWork

Spec == Init /\ [][Next]_vars

----------------------------------------------------------------------------
\* Properties of the last call.

IsImportFile == last.op = "ImportFile"
ByProject == last.op \in {"ScheduleExport", "ExportStatus", "ExportDownload", "ImportStatus"}
Transport(out) == Count(out.calls, "NewRequest") + Count(out.calls, "Do")
Missing(ptr) == ptr = NilPtr \/ ptr = {""}
OpenError == Err("os.Open", "no such file")
OpenFails == IsImportFile /\ last.in.opt.File # NilPtr
                /\ Deref(last.in.opt.File) \notin ExistingFiles
PartFailed(out) ==
    \E f \in out.failed :
        f.call \in {"CreateFormFile", "io.Copy", "CreateFormField", "Write", "os"}
PartNames(out) == [i \in 1..Len(out.parts) |-> out.parts[i].name]
ExpectedParts(opt) ==
    <<"file", "namespace", "path">>
    \o (IF opt.Name = NilPtr THEN <<>> ELSE <<"name">>)
    \o (IF opt.Overwrite = NilPtr THEN <<>> ELSE <<"overwrite">>)
    \o (IF opt.OverrideParams = NilPtr THEN <<>> ELSE <<"override_params">>)

\* C1: ImportFile with an unset or empty namespace or path returns an error,
\* makes no transport call (no NewRequest, no Do) and writes no request body.
C1_ValidatesBeforeTransport ==
    (IsImportFile /\ (Missing(last.in.opt.Namespace) \/ Missing(last.in.opt.Path)))
        => /\ last.out.halt = "return"
           /\ last.out.err # NilErr
           /\ Transport(last.out) = 0
           /\ last.out.parts = <<>>

\* C2: on every exit path of ImportFile an opened file handle has been released
\* exactly once, and no release is attempted on a handle never acquired.
C2_ReleasedExactlyOnce ==
    IsImportFile
        => /\ last.out.handle \in {"open", "closed"}
                => (last.out.handle = "closed" /\ last.out.closedOpen = 1)
           /\ last.out.closedNil = 0

\* C3: if creating or writing any multipart part fails, ImportFile returns an
\* error and submits no request; a request is submitted only if every part that
\* was attempted was written without error.
C3_PartFailureAborts ==
    IsImportFile
        => /\ PartFailed(last.out)
                => (last.out.halt = "return" /\ last.out.err # NilErr /\ ~last.out.sent)
           /\ last.out.sent
                => \A i \in 1..Len(last.out.parts) : last.out.parts[i].written

\* C4: whenever ImportFile submits a request the body holds the file part, then
\* namespace, then path, then name, overwrite and override_params, each of these
\* three exactly when its option is set, and the closing boundary was written.
C4_PartsInOrderAndClosed ==
    (IsImportFile /\ last.out.sent)
        => /\ PartNames(last.out) = ExpectedParts(last.in.opt)
           /\ last.out.closed

\* C5: every operation returns, and ExportStatus, ExportDownload, ImportFile and
\* ImportStatus return a nil result exactly when they return an error.
C5_ResultXorError ==
    last.op # "none"
        => /\ last.out.halt = "return"
           /\ last.op # "ScheduleExport"
                => (last.out.resultNil <=> last.out.err # NilErr)

\* C6: with a malformed or empty project reference ScheduleExport, ExportStatus,
\* ExportDownload and ImportStatus return an error, no result and no response,
\* and call neither NewRequest nor Do; Do is not called when NewRequest fails.
C6_BadReferenceNoTransport ==
    ByProject
        => /\ parseID(last.in.pid).err # NilErr
                => /\ last.out.err # NilErr
                   /\ last.out.resultNil
                   /\ last.out.resp = "nil"
                   /\ last.out.calls = <<>>
           /\ (last.in.nr /\ Count(last.out.calls, "NewRequest") > 0)
                => Count(last.out.calls, "Do") = 0

C6_Witness ==
    /\ last.op = "ExportDownload"
    /\ last.in.pid.s = ""
    /\ last.out.err = Err("parseID", "string")
    /\ last.out.calls = <<>>

\* C7: ExportDownload sends its request whatever the job's status; while the job
\* is not finished it returns the transport's error unchanged and no bytes; when
\* the job is finished it returns exactly the bytes served.
C7_DownloadPassesThrough ==
    (last.op = "ExportDownload" /\ parseID(last.in.pid).err = NilErr /\ ~last.in.nr)
        => /\ Count(last.out.calls, "Do") = 1
           /\ last.out.err = last.in.do.err
           /\ last.in.server # "finished"
                => /\ last.out.err # NilErr
                   /\ last.out.resultNil
                   /\ last.out.bytes = <<>>
           /\ (last.in.server = "finished" /\ last.in.do = DoOk)
                => /\ last.out.err = NilErr
                   /\ ~last.out.resultNil
                   /\ last.out.bytes = last.in.archive

C7_Witness ==
    /\ last.op = "ExportDownload"
    /\ last.in.server = "started"
    /\ Count(last.out.calls, "Do") = 1
    /\ last.out.err = Err("Do", "api")
    /\ last.out.resultNil

\* C9: a call invokes Do at most once and makes no request after it; ImportFile
\* asks only for POST groups/import and hands back the status of that one
\* round trip.
C9_OneRoundTrip ==
    last.op # "none"
        => /\ Count(last.out.calls, "Do") <= 1
           /\ Count(last.out.calls, "NewRequest") <= 1
           /\ \A i \in 1..Len(last.out.calls) :
                last.out.calls[i].call = "Do"
                    => \A j \in (i + 1)..Len(last.out.calls) :
                         last.out.calls[j].call \notin {"NewRequest", "Do"}
           /\ IsImportFile
                => /\ \A i \in 1..Len(last.out.calls) :
                        last.out.calls[i].call \in {"NewRequest", "Do"}
                            => last.out.calls[i].req = Req("POST", "groups/import", "")
                   /\ (last.out.halt = "return" /\ last.out.err = NilErr)
                        => (last.out.sent /\ last.out.status = last.in.ack)

C9_Witness ==
    /\ IsImportFile
    /\ last.in.do = DoTransportError
    /\ last.out.err = Err("Do", "transport")
    /\ Count(last.out.calls, "Do") = 1

\* C10: when the archive file cannot be opened ImportFile returns the open
\* error, creates and writes no part, and makes no transport call.
C10_OpenFailureShortCircuits ==
    OpenFails
        => /\ last.out.halt = "return"
           /\ last.out.err = OpenError
           /\ last.out.parts = <<>>
           /\ Count(last.out.calls, "CreateFormFile") = 0
           /\ Transport(last.out) = 0

====
